---- MODULE Spec2Model ----
(***************************************************************************)
(* Model of src/main.py: the CAN-bus telemetry analysis script.            *)
(*                                                                         *)
(* The script is one straight-line batch run over a pandas data frame:     *)
(* read the rows, clean them, then four "insight" sections that add        *)
(* derived columns to df_clean and compute session scalars.  Each section  *)
(* of the script is one action; the columns it assigns are the variables.  *)
(*                                                                         *)
(* A pandas cell is a float64.  Cells are modelled as exact rationals      *)
(* extended with NaN and the two infinities, with the IEEE / pandas rules  *)
(* for missing values: arithmetic on NaN gives NaN, x/0 gives an infinity  *)
(* (0/0 gives NaN), every comparison with NaN is false, and the            *)
(* reductions mean / max / min skip NaN and give NaN on an empty column.   *)
(* Rounding of float64 results is not modelled: the logs carry integer     *)
(* readings, on which the sums, differences and comparisons of the script  *)
(* are exact.                                                              *)
(*                                                                         *)
(* The run ends with pc = "done", or with pc = "failed" and the Python     *)
(* exception in error: IndexError when the log has no row (line 26),       *)
(* ZeroDivisionError when cleaning leaves no row (line 104).  The script   *)
(* raises nothing else before the charts.                                  *)
(***************************************************************************)
EXTENDS Integers, Sequences, FiniteSets

\* ------------------------------------------------------------------------
\* Bounds of the model
\* ------------------------------------------------------------------------

\* Largest number of rows read from the CSV file.
MaxLen == 3

\* ------------------------------------------------------------------------
\* float64 cells: [k, n, d] with k in {"num","nan","inf","ninf"}; a "num"
\* cell is the rational n/d in lowest terms with d > 0.
\* ------------------------------------------------------------------------

Abs(x) == IF x < 0 THEN -x ELSE x

RECURSIVE GCD(_, _)
GCD(a, b) == IF b = 0 THEN a ELSE GCD(b, a % b)

NaN == [k |-> "nan", n |-> 0, d |-> 1]
PosInf == [k |-> "inf", n |-> 0, d |-> 1]
NegInf == [k |-> "ninf", n |-> 0, d |-> 1]

\* The rational n/d (d # 0) in lowest terms.
Rat(n, d) ==
    LET g == GCD(Abs(n), Abs(d))
        s == IF d < 0 THEN -1 ELSE 1
    IN  [k |-> "num", n |-> (s * n) \div g, d |-> (s * d) \div g]

Num(x) == [k |-> "num", n |-> x, d |-> 1]

IsNaN(a) == a.k = "nan"
IsNum(a) == a.k = "num"

\* a + b and a - b on finite cells or NaN (the script never adds infinities).
FAdd(a, b) ==
    IF IsNaN(a) \/ IsNaN(b) THEN NaN
    ELSE IF ~IsNum(a) THEN a
    ELSE IF ~IsNum(b) THEN b
    ELSE LET g == GCD(a.d, b.d)
             l == (a.d \div g) * b.d
         IN  Rat(a.n * (l \div a.d) + b.n * (l \div b.d), l)

FNeg(a) ==
    CASE a.k = "num" -> [a EXCEPT !.n = -a.n]
      [] a.k = "inf" -> NegInf
      [] a.k = "ninf" -> PosInf
      [] OTHER -> NaN

FSub(a, b) == FAdd(a, FNeg(b))

\* a * b for finite cells or NaN; an infinity times a positive number.
FMul(a, b) ==
    IF IsNaN(a) \/ IsNaN(b) THEN NaN
    ELSE IF IsNum(a) /\ IsNum(b) THEN
        LET g1 == GCD(Abs(a.n), b.d)
            g2 == GCD(Abs(b.n), a.d)
        IN  Rat((a.n \div g1) * (b.n \div g2), (a.d \div g2) * (b.d \div g1))
    ELSE LET sa == IF a.k = "ninf" \/ (IsNum(a) /\ a.n < 0) THEN -1
                   ELSE IF IsNum(a) /\ a.n = 0 THEN 0 ELSE 1
             sb == IF b.k = "ninf" \/ (IsNum(b) /\ b.n < 0) THEN -1
                   ELSE IF IsNum(b) /\ b.n = 0 THEN 0 ELSE 1
         IN  IF sa * sb = 0 THEN NaN ELSE IF sa * sb > 0 THEN PosInf ELSE NegInf

\* a / b: float division, with x/0 = +-inf and 0/0 = NaN.
FDiv(a, b) ==
    IF IsNaN(a) \/ IsNaN(b) THEN NaN
    ELSE IF IsNum(a) /\ IsNum(b) THEN
        IF b.n = 0
        THEN IF a.n = 0 THEN NaN ELSE IF a.n > 0 THEN PosInf ELSE NegInf
        ELSE FMul(a, Rat(b.d, b.n))
    ELSE IF IsNum(b) THEN FMul(a, b)
    ELSE IF IsNum(a) THEN Num(0)
    ELSE NaN

FAbs(a) ==
    CASE a.k = "num" -> [a EXCEPT !.n = Abs(a.n)]
      [] a.k = "nan" -> NaN
      [] OTHER -> PosInf

\* a < b; false when either side is NaN.
FLt(a, b) ==
    IF IsNaN(a) \/ IsNaN(b) THEN FALSE
    ELSE IF a.k = "ninf" THEN b.k # "ninf"
    ELSE IF b.k = "inf" THEN a.k # "inf"
    ELSE IF a.k = "inf" \/ b.k = "ninf" THEN FALSE
    ELSE a.n * b.d < b.n * a.d

FGt(a, b) == FLt(b, a)

\* Series.clip(lo, hi): NaN stays NaN.
Clip(a, lo, hi) ==
    IF IsNaN(a) THEN NaN
    ELSE IF FLt(a, lo) THEN lo
    ELSE IF FGt(a, hi) THEN hi
    ELSE a

\* ------------------------------------------------------------------------
\* Column helpers (pandas Series operations)
\* ------------------------------------------------------------------------

\* Series.diff(): element minus its predecessor, NaN for the first element.
Diff(col) ==
    [i \in 1..Len(col) |-> IF i = 1 THEN NaN ELSE FSub(col[i], col[i - 1])]

\* The non-NaN cells of a column, in order.
RECURSIVE DropNaN(_)
DropNaN(col) ==
    IF col = <<>> THEN <<>>
    ELSE IF IsNaN(Head(col)) THEN DropNaN(Tail(col))
    ELSE <<Head(col)>> \o DropNaN(Tail(col))

RECURSIVE SumCol(_)
SumCol(col) == IF col = <<>> THEN Num(0) ELSE FAdd(Head(col), SumCol(Tail(col)))

\* Series.mean(): skips NaN; NaN when nothing is left.
Mean(col) ==
    LET c == DropNaN(col)
    IN  IF c = <<>> THEN NaN ELSE FDiv(SumCol(c), Num(Len(c)))

\* Series.max() / Series.min(): skip NaN; NaN when nothing is left.
ColMax(col) ==
    LET c == DropNaN(col)
    IN  IF c = <<>> THEN NaN
        ELSE c[CHOOSE i \in 1..Len(c) : \A j \in 1..Len(c) : ~FLt(c[i], c[j])]

ColMin(col) ==
    LET c == DropNaN(col)
    IN  IF c = <<>> THEN NaN
        ELSE c[CHOOSE i \in 1..Len(c) : \A j \in 1..Len(c) : ~FLt(c[j], c[i])]

\* frame[mask]: the rows of s whose mask entry is TRUE, in order.
RECURSIVE MaskFrom(_, _, _)
MaskFrom(s, mask, i) ==
    IF i > Len(s) THEN <<>>
    ELSE IF mask[i] THEN <<s[i]>> \o MaskFrom(s, mask, i + 1)
    ELSE MaskFrom(s, mask, i + 1)

Mask(s, mask) == MaskFrom(s, mask, 1)

\* Insert x into the ascending sequence s.
RECURSIVE Insert(_, _)
Insert(x, s) ==
    IF s = <<>> THEN <<x>>
    ELSE IF FLt(Head(s), x) THEN <<Head(s)>> \o Insert(x, Tail(s))
    ELSE <<x>> \o s

RECURSIVE Sort(_)
Sort(col) == IF col = <<>> THEN <<>> ELSE Insert(Head(col), Sort(Tail(col)))

\* Series.quantile(num/den) with pandas' default linear interpolation: the
\* value at fractional position (n - 1) * num/den of the sorted column.
Quantile(col, num, den) ==
    LET s == Sort(DropNaN(col))
        n == Len(s)
        k == ((n - 1) * num) \div den
        r == ((n - 1) * num) % den
    IN  IF n = 0 THEN NaN
        ELSE IF r = 0 THEN s[k + 1]
        ELSE FAdd(s[k + 1], FMul(Rat(r, den), FSub(s[k + 2], s[k + 1])))

\* ------------------------------------------------------------------------
\* State
\* ------------------------------------------------------------------------

VARIABLES
    pc,                     \* section of the script that runs next
    error,                  \* exception that ended the run, or "none"
    df,                     \* rows read from can_data.csv
    df_clean,               \* cleaned frame (rows keep their df index)
    volumetric_efficiency,  \* df_clean columns added by the insight sections
    rpm_change,
    acceleration_rate,
    is_accelerating,
    num_accel_events,
    potential_shifts,       \* rows of df_clean flagged as gear shifts
    avg_shift_rpm,
    power_index,
    optimal_shift_rpm,
    shifting_early,
    tps_change,
    map_change_rate,
    aggression_score,
    n_aggressive,           \* len(aggressive_moments)
    n_smooth,               \* len(smooth_moments)
    n_moderate,             \* len(df_clean) - aggressive - smooth
    avg_aggression,
    assessment

vars ==
    <<pc, error, df, df_clean, volumetric_efficiency, rpm_change,
      acceleration_rate, is_accelerating, num_accel_events, potential_shifts,
      avg_shift_rpm, power_index, optimal_shift_rpm, shifting_early,
      tps_change, map_change_rate, aggression_score, n_aggressive, n_smooth,
      n_moderate, avg_aggression, assessment>>

insight1 == <<volumetric_efficiency>>
insight2 == <<rpm_change, acceleration_rate, is_accelerating, num_accel_events>>
insight3 ==
    <<potential_shifts, avg_shift_rpm, power_index, optimal_shift_rpm,
      shifting_early>>
insight4 ==
    <<tps_change, map_change_rate, aggression_score, n_aggressive, n_smooth,
      n_moderate, avg_aggression, assessment>>

Init ==
    /\ pc = "read"
    /\ error = "none"
    /\ df = <<>>
    /\ df_clean = <<>>
    /\ volumetric_efficiency = <<>>
    /\ rpm_change = <<>>
    /\ acceleration_rate = <<>>
    /\ is_accelerating = <<>>
    /\ num_accel_events = 0
    /\ potential_shifts = <<>>
    /\ avg_shift_rpm = NaN
    /\ power_index = <<>>
    /\ optimal_shift_rpm = NaN
    /\ shifting_early = FALSE
    /\ tps_change = <<>>
    /\ map_change_rate = <<>>
    /\ aggression_score = <<>>
    /\ n_aggressive = 0
    /\ n_smooth = 0
    /\ n_moderate = 0
    /\ avg_aggression = NaN
    /\ assessment = "none"

\* ------------------------------------------------------------------------
\* Input rows
\* ------------------------------------------------------------------------

Row(rpm, tps, map, bar, lam) ==
    [RPM |-> rpm, TPS |-> tps, MAP |-> map, Barometer |-> bar, Lambda |-> lam]

\* Timestamp of the first row of the log (seconds since the epoch).
StartTimes == {10}

\* Rows for the event-detection runs: every field present, RPM steps of
\* exactly 100, 500 and 600 either way, throttle on both thresholds and
\* above them, and engine-off rows (RPM 0) that cleaning drops.
RowsEvents ==
    { Row(Num(r), Num(t), Num(40), Num(100), Num(1)) :
        r \in {0, 5400, 5500, 6000}, t \in {30, 50, 80} }

GapsEvents == {1}

\* Rows for the cleaning runs: a complete row, a row missing only the
\* barometer, and rows that cleaning drops (each critical field missing in
\* turn, RPM 0).
RowsClean ==
    { Row(Num(6000), Num(80), Num(40), b, Num(1)) : b \in {Num(100), Num(101), NaN} }
    \cup { Row(r, Num(80), Num(40), Num(99), Num(1)) : r \in {NaN, Num(0)} }
    \cup { Row(Num(6000), NaN, Num(40), Num(99), Num(1)),
           Row(Num(6000), Num(80), NaN, Num(99), Num(1)),
           Row(Num(6000), Num(80), Num(40), Num(99), NaN) }

GapsClean == {0, 1}

\* Rows for the scoring runs: every field present, throttle from closed to
\* open, two RPM levels, manifold pressure steps of 0 and 5, and repeated
\* timestamps.
RowsScore ==
    { Row(Num(r), Num(t), Num(m), Num(100), Num(1)) :
        r \in {5400, 6000}, t \in {0, 30, 80}, m \in {40, 45} }

GapsScore == {0, 1}

\* Rows for the acceleration runs: RPM steps of exactly 100 and of 150,
\* 200 and 300, throttle on the threshold and above it, engine-off rows.
RowsAccel ==
    { Row(Num(r), Num(t), Num(40), Num(100), Num(1)) :
        r \in {0, 2000, 2100, 2150, 2300}, t \in {50, 60} }

GapsAccel == {1}

\* ------------------------------------------------------------------------
\* Line 12: df = pd.read_csv('can_data.csv'), one row at a time.  The log
\* is time-ordered: a row's timestamp is its predecessor's plus a gap.
\* ------------------------------------------------------------------------

ReadCsv(rows, gaps) ==
    /\ pc = "read"
    /\ Len(df) < MaxLen
    /\ \E r \in rows :
         \E t \in IF df = <<>> THEN StartTimes
                  ELSE {df[Len(df)].timestamp.n + g : g \in gaps} :
            df' = Append(df, [timestamp |-> Num(t), RPM |-> r.RPM, TPS |-> r.TPS,
                              MAP |-> r.MAP, Barometer |-> r.Barometer,
                              Lambda |-> r.Lambda])
    /\ UNCHANGED <<pc, error, df_clean, insight1, insight2, insight3, insight4>>

\* ------------------------------------------------------------------------
\* Lines 25-37: clean the data
\* ------------------------------------------------------------------------

critical_columns == {"RPM", "TPS", "MAP", "Lambda"}

\* Faulty variant of WithTimeElapsed: time_elapsed is the raw timestamp,
\* the start of the log is not subtracted.
WithTimeElapsed_NoOffset(frame) ==
    [i \in 1..Len(frame) |->
        [idx |-> i, timestamp |-> frame[i].timestamp,
         time_elapsed |-> frame[i].timestamp,
         RPM |-> frame[i].RPM, TPS |-> frame[i].TPS, MAP |-> frame[i].MAP,
         Barometer |-> frame[i].Barometer, Lambda |-> frame[i].Lambda]]

\* Line 29: df['time_elapsed'] = df['timestamp'] - df['timestamp'].min();
\* each row also carries its index label in df.
WithTimeElapsed(frame) ==
    LET t0 == ColMin([i \in 1..Len(frame) |-> frame[i].timestamp])
    IN  [i \in 1..Len(frame) |->
            [idx |-> i, timestamp |-> frame[i].timestamp,
             time_elapsed |-> FSub(frame[i].timestamp, t0),
             RPM |-> frame[i].RPM, TPS |-> frame[i].TPS, MAP |-> frame[i].MAP,
             Barometer |-> frame[i].Barometer, Lambda |-> frame[i].Lambda]]

\* Line 34: df.dropna(subset=critical_columns)
DropNa(frame) ==
    Mask(frame, [i \in 1..Len(frame) |->
                    \A c \in critical_columns : ~IsNaN(frame[i][c])])

\* Faulty variant of RpmPositive: keeps RPM >= 0.
RpmPositive_NonNegative(frame) ==
    Mask(frame, [i \in 1..Len(frame) |->
                    FGt(frame[i].RPM, Num(0)) \/ frame[i].RPM = Num(0)])

\* Line 35: df_clean[df_clean['RPM'] > 0]
RpmPositive(frame) ==
    Mask(frame, [i \in 1..Len(frame) |-> FGt(frame[i].RPM, Num(0))])

\* The last valid value of column c at or before row i (NaN if none).
RECURSIVE LastValid(_, _, _)
LastValid(frame, c, i) ==
    IF i = 1 \/ ~IsNaN(frame[i][c]) THEN frame[i][c]
    ELSE LastValid(frame, c, i - 1)

\* Line 37: df_clean.fillna(method='ffill'), over every column.
FFill(frame) ==
    [i \in 1..Len(frame) |->
        [c \in DOMAIN frame[i] |->
            IF c = "idx" THEN frame[i].idx ELSE LastValid(frame, c, i)]]

Cleaned(frame) == FFill(RpmPositive(DropNa(WithTimeElapsed(frame))))

\* Line 26 reads df['datetime'].iloc[0]: IndexError on an empty frame.
CleanData ==
    /\ pc = "read"
    /\ IF Len(df) = 0
       THEN /\ pc' = "failed"
            /\ error' = "IndexError"
            /\ UNCHANGED df_clean
       ELSE /\ df_clean' = Cleaned(df)
            /\ pc' = "insight1"
            /\ UNCHANGED error
    /\ UNCHANGED <<df, insight1, insight2, insight3, insight4>>

\* ------------------------------------------------------------------------
\* Lines 44-46: 1. how well is the engine breathing
\* ------------------------------------------------------------------------

VolumetricEfficiency(frame) ==
    [i \in 1..Len(frame) |->
        FMul(FDiv(frame[i].MAP, frame[i].Barometer), Num(100))]

EngineBreathing ==
    /\ pc = "insight1"
    /\ volumetric_efficiency' = VolumetricEfficiency(df_clean)
    /\ pc' = "insight2"
    /\ UNCHANGED <<error, df, df_clean, insight2, insight3, insight4>>

\* ------------------------------------------------------------------------
\* Lines 49-54: 2. acceleration detection
\* ------------------------------------------------------------------------

Col(frame, c) == [i \in 1..Len(frame) |-> frame[i][c]]

\* Line 49: df_clean['RPM'].diff()
RpmChange(frame) == Diff(Col(frame, "RPM"))

\* Line 50: rpm_change / time_elapsed.diff()
AccelerationRate(frame) ==
    LET dr == RpmChange(frame)
        dt == Diff(Col(frame, "time_elapsed"))
    IN  [i \in 1..Len(frame) |-> FDiv(dr[i], dt[i])]

\* Faulty variant of IsAccelerating: rpm_change >= 100.
IsAccelerating_Inclusive(frame) ==
    LET dr == Diff(Col(frame, "RPM"))
    IN  [i \in 1..Len(frame) |->
            (FGt(dr[i], Num(100)) \/ dr[i] = Num(100))
            /\ FGt(frame[i].TPS, Num(50))]

\* Line 51: (rpm_change > 100) & (TPS > 50)
IsAccelerating(frame) ==
    LET dr == RpmChange(frame)
    IN  [i \in 1..Len(frame) |->
            FGt(dr[i], Num(100)) /\ FGt(frame[i].TPS, Num(50))]

CountTrue(mask) == Cardinality({i \in 1..Len(mask) : mask[i]})

AccelerationDetection ==
    /\ pc = "insight2"
    /\ rpm_change' = RpmChange(df_clean)
    /\ acceleration_rate' = AccelerationRate(df_clean)
    /\ LET flags == IsAccelerating(df_clean)
       IN  /\ is_accelerating' = flags
           /\ num_accel_events' = CountTrue(flags)
    /\ pc' = "insight3"
    /\ UNCHANGED <<error, df, df_clean, insight1, insight3, insight4>>

\* ------------------------------------------------------------------------
\* Lines 57-79: 3. gear shift detection, shift quality, best shift point
\* ------------------------------------------------------------------------

shift_threshold == -500

\* Faulty variant of ShiftMask: rpm_change <= shift_threshold.
ShiftMask_Inclusive(frame) ==
    LET dr == RpmChange(frame)
    IN  [i \in 1..Len(frame) |->
            (FLt(dr[i], Num(shift_threshold)) \/ dr[i] = Num(shift_threshold))
            /\ FGt(frame[i].TPS, Num(30))]

\* Lines 58-61: (rpm_change < shift_threshold) & (TPS > 30)
ShiftMask(frame) ==
    LET dr == RpmChange(frame)
    IN  [i \in 1..Len(frame) |->
            FLt(dr[i], Num(shift_threshold)) /\ FGt(frame[i].TPS, Num(30))]

\* Faulty variant of PotentialShifts: shift_rpm_before = RPM + rpm_change.
PotentialShifts_Added(frame) ==
    LET dr == RpmChange(frame)
    IN  Mask([i \in 1..Len(frame) |->
                [idx |-> frame[i].idx, time_elapsed |-> frame[i].time_elapsed,
                 RPM |-> frame[i].RPM, TPS |-> frame[i].TPS,
                 rpm_change |-> dr[i],
                 shift_rpm_before |-> FAdd(frame[i].RPM, dr[i])]],
             ShiftMask(frame))

\* Lines 58-68: the flagged rows with their rpm_change and
\* shift_rpm_before = RPM - rpm_change.
PotentialShifts(frame) ==
    LET dr == RpmChange(frame)
    IN  Mask([i \in 1..Len(frame) |->
                [idx |-> frame[i].idx, time_elapsed |-> frame[i].time_elapsed,
                 RPM |-> frame[i].RPM, TPS |-> frame[i].TPS,
                 rpm_change |-> dr[i],
                 shift_rpm_before |-> FSub(frame[i].RPM, dr[i])]],
             ShiftMask(frame))

\* Line 69: potential_shifts['shift_rpm_before'].mean()
AvgShiftRpm(shifts) == Mean(Col(shifts, "shift_rpm_before"))

\* Line 73: (RPM / 1000) * (MAP / 10) * (TPS / 100)
PowerIndex(frame) ==
    [i \in 1..Len(frame) |->
        FMul(FMul(FDiv(frame[i].RPM, Num(1000)), FDiv(frame[i].MAP, Num(10))),
             FDiv(frame[i].TPS, Num(100)))]

\* Line 74: the lowest RPM among the rows whose power_index is above the
\* 0.9 quantile of power_index.
OptimalShiftRpm(frame) ==
    LET p == PowerIndex(frame)
        q == Quantile(p, 9, 10)
    IN  ColMin(Col(Mask(frame, [i \in 1..Len(frame) |-> FGt(p[i], q)]), "RPM"))

\* Line 77: avg_shift_rpm < optimal_shift_rpm - 500
ShiftingEarly(avg, optimal) == FLt(avg, FSub(optimal, Num(500)))

GearShiftDetection ==
    /\ pc = "insight3"
    /\ LET shifts == PotentialShifts(df_clean)
           avg == AvgShiftRpm(shifts)
           optimal == OptimalShiftRpm(df_clean)
       IN  /\ potential_shifts' = shifts
           /\ avg_shift_rpm' = avg
           /\ power_index' = PowerIndex(df_clean)
           /\ optimal_shift_rpm' = optimal
           /\ shifting_early' = ShiftingEarly(avg, optimal)
    /\ pc' = "insight4"
    /\ UNCHANGED <<error, df, df_clean, insight1, insight2, insight4>>

\* ------------------------------------------------------------------------
\* Lines 83-115: 4. driver aggression score and driving style
\* ------------------------------------------------------------------------

\* Line 83: df_clean['TPS'].diff()
TpsChange(frame) == Diff(Col(frame, "TPS"))

\* Line 84: MAP.diff() / time_elapsed.diff()
MapChangeRate(frame) ==
    LET dm == Diff(Col(frame, "MAP"))
        dt == Diff(Col(frame, "time_elapsed"))
    IN  [i \in 1..Len(frame) |-> FDiv(dm[i], dt[i])]

\* Line 88: (TPS / 100) * 0.3
TpsTerm(tps) == FMul(FDiv(tps, Num(100)), Rat(3, 10))

\* Line 89: (tps_change.abs() / 10).clip(0, 1) * 0.2
TpsChangeTerm(dtps) ==
    FMul(Clip(FDiv(FAbs(dtps), Num(10)), Num(0), Num(1)), Rat(2, 10))

\* Line 90: (RPM / RPM.max()) * 0.3
RpmTerm(rpm, rpm_max) == FMul(FDiv(rpm, rpm_max), Rat(3, 10))

\* Line 91: (map_change_rate.abs() / 5).clip(0, 1) * 0.2
MapRateTerm(rate) ==
    FMul(Clip(FDiv(FAbs(rate), Num(5)), Num(0), Num(1)), Rat(2, 10))

\* Lines 87-92: the sum of the four weighted terms.
AggressionScore(frame) ==
    LET dtps == TpsChange(frame)
        rate == MapChangeRate(frame)
        rpm_max == ColMax(Col(frame, "RPM"))
    IN  [i \in 1..Len(frame) |->
            FAdd(FAdd(FAdd(TpsTerm(frame[i].TPS), TpsChangeTerm(dtps[i])),
                      RpmTerm(frame[i].RPM, rpm_max)),
                 MapRateTerm(rate[i]))]

aggressive_threshold == Rat(5, 10)

\* Line 100: aggression_score > aggressive_threshold
AggressiveMask(score) ==
    [i \in 1..Len(score) |-> FGt(score[i], aggressive_threshold)]

\* Line 101: aggression_score < 0.3
SmoothMask(score) == [i \in 1..Len(score) |-> FLt(score[i], Rat(3, 10))]

\* Lines 109-115: the session verdict from the mean score.
Assessment(avg) ==
    IF FLt(avg, Rat(3, 10)) THEN "CONSERVATIVE"
    ELSE IF FLt(avg, Rat(5, 10)) THEN "BALANCED"
    ELSE "AGGRESSIVE"

\* Lines 104-106 divide by len(df_clean): ZeroDivisionError on an empty
\* cleaned frame, before avg_aggression is assigned.
AggressionAnalysis ==
    /\ pc = "insight4"
    /\ tps_change' = TpsChange(df_clean)
    /\ map_change_rate' = MapChangeRate(df_clean)
    /\ LET score == AggressionScore(df_clean)
           aggressive_moments == CountTrue(AggressiveMask(score))
           smooth_moments == CountTrue(SmoothMask(score))
           avg == Mean(score)
       IN  /\ aggression_score' = score
           /\ n_aggressive' = aggressive_moments
           /\ n_smooth' = smooth_moments
           /\ IF Len(df_clean) = 0
              THEN /\ pc' = "failed"
                   /\ error' = "ZeroDivisionError"
                   /\ UNCHANGED <<n_moderate, avg_aggression, assessment>>
              ELSE /\ n_moderate' =
                        Len(df_clean) - aggressive_moments - smooth_moments
                   /\ avg_aggression' = avg
                   /\ assessment' = Assessment(avg)
                   /\ pc' = "done"
                   /\ UNCHANGED error
    /\ UNCHANGED <<df, df_clean, insight1, insight2, insight3>>

\* ------------------------------------------------------------------------
\* Specifications: the same script over three families of logs
\* ------------------------------------------------------------------------

Pipeline ==
    \/ CleanData
    \/ EngineBreathing
    \/ AccelerationDetection
    \/ GearShiftDetection
    \/ AggressionAnalysis

Next ==
    \/ ReadCsv(RowsEvents, GapsEvents)
    \/ Pipeline

Spec == Init /\ [][Next]_vars

NextClean ==
    \/ ReadCsv(RowsClean, GapsClean)
    \/ Pipeline

SpecClean == Init /\ [][NextClean]_vars

NextScore ==
    \/ ReadCsv(RowsScore, GapsScore)
    \/ Pipeline

SpecScore == Init /\ [][NextScore]_vars

NextAccel ==
    \/ ReadCsv(RowsAccel, GapsAccel)
    \/ Pipeline

SpecAccel == Init /\ [][NextAccel]_vars

\* ------------------------------------------------------------------------
\* Properties
\* ------------------------------------------------------------------------

\* How far the script has run.
CleanDone ==
    \/ pc \in {"insight1", "insight2", "insight3", "insight4", "done"}
    \/ pc = "failed" /\ error = "ZeroDivisionError"

AccelDone ==
    \/ pc \in {"insight3", "insight4", "done"}
    \/ pc = "failed" /\ error = "ZeroDivisionError"

ShiftsDone ==
    \/ pc \in {"insight4", "done"}
    \/ pc = "failed" /\ error = "ZeroDivisionError"

ScoreDone == pc = "done"

Present(cell) == cell.k = "num"

\* A raw sample that the normalizer must keep: rpm, tps, map and lambda all
\* present and rpm > 0.
Retainable(r) ==
    /\ Present(r.RPM) /\ Present(r.TPS) /\ Present(r.MAP) /\ Present(r.Lambda)
    /\ r.RPM.n > 0

RetainableIdx == {i \in 1..Len(df) : Retainable(df[i])}

\* C1: the cleaned sequence is exactly the subsequence of the raw samples
\* that have rpm, tps, map and lambda present and rpm > 0, in input order:
\* as many rows as there are such samples, each one an unmodified such
\* sample, with strictly increasing positions in the input.
C1_CleanedIsRetainableSubsequence ==
    CleanDone =>
        /\ Len(df_clean) = Cardinality(RetainableIdx)
        /\ \A j \in 1..Len(df_clean) :
             /\ df_clean[j].idx \in RetainableIdx
             /\ \A c \in {"timestamp", "RPM", "TPS", "MAP", "Lambda"} :
                  df_clean[j][c] = df[df_clean[j].idx][c]
        /\ \A j, k \in 1..Len(df_clean) :
             j < k => df_clean[j].idx < df_clean[k].idx

\* A three-row log with one dropped row whose two kept rows share a
\* timestamp.
C1_Witness ==
    /\ CleanDone
    /\ Len(df) = 3
    /\ Len(df_clean) = 2
    /\ df_clean[1].timestamp = df_clean[2].timestamp

\* C2 as stated: time_elapsed of a cleaned sample is its timestamp minus the
\* timestamp of the first cleaned sample, so the first cleaned sample has
\* time_elapsed 0 even when leading raw samples were dropped.
C2_ElapsedFromFirstCleaned ==
    CleanDone =>
        \A j \in 1..Len(df_clean) :
            df_clean[j].time_elapsed =
                Num(df_clean[j].timestamp.n - df_clean[1].timestamp.n)

\* C2 amended: time_elapsed of a cleaned sample is its timestamp minus the
\* timestamp of the first raw sample; it is non-negative and non-decreasing
\* along the cleaned sequence, and it is 0 for the first cleaned sample
\* when the first raw sample is retained.
C2_ElapsedFromFirstRaw ==
    CleanDone =>
        /\ \A j \in 1..Len(df_clean) :
             /\ df_clean[j].time_elapsed =
                    Num(df_clean[j].timestamp.n - df[1].timestamp.n)
             /\ df_clean[j].time_elapsed.n >= 0
        /\ \A j \in 2..Len(df_clean) :
             df_clean[j - 1].time_elapsed.n <= df_clean[j].time_elapsed.n
        /\ (Len(df_clean) >= 1 /\ df_clean[1].idx = 1) =>
             df_clean[1].time_elapsed = Num(0)

\* Leading raw rows were dropped and the first cleaned sample starts after
\* the log does.
C2_Witness ==
    /\ CleanDone
    /\ Len(df_clean) >= 2
    /\ df_clean[1].idx > 1
    /\ df_clean[1].time_elapsed.n > 0

\* Cleaned samples that must be flagged as shifts: a predecessor exists,
\* rpm_delta < -500 and tps > 30.
ShiftRows ==
    {j \in 2..Len(df_clean) :
        /\ df_clean[j].RPM.n - df_clean[j - 1].RPM.n < -500
        /\ df_clean[j].TPS.n > 30}

\* C3: the shift events are exactly the cleaned samples with
\* rpm_delta < -500 and tps > 30, one event each; the first cleaned sample
\* and samples with rpm_delta >= -500 or tps <= 30 yield none.
C3_ShiftEventsExact ==
    ShiftsDone =>
        /\ Len(potential_shifts) = Cardinality(ShiftRows)
        /\ {potential_shifts[e].idx : e \in 1..Len(potential_shifts)}
             = {df_clean[j].idx : j \in ShiftRows}

\* One shift event in a three-sample session.
C3_Witness ==
    /\ ShiftsDone
    /\ Len(df_clean) = 3
    /\ Len(potential_shifts) = 1

\* C4: every shift event has rpm_before = rpm - rpm_delta, equal to the rpm
\* of its predecessor in the cleaned sequence, and more than 500 above the
\* event's rpm.
C4_RpmBeforeIsCleanedPredecessor ==
    ShiftsDone =>
        \A e \in 1..Len(potential_shifts) :
            \E j \in 2..Len(df_clean) :
                /\ df_clean[j].idx = potential_shifts[e].idx
                /\ potential_shifts[e].shift_rpm_before =
                       Num(potential_shifts[e].RPM.n - potential_shifts[e].rpm_change.n)
                /\ potential_shifts[e].shift_rpm_before = df_clean[j - 1].RPM
                /\ potential_shifts[e].shift_rpm_before.n > potential_shifts[e].RPM.n + 500

\* A shift event whose cleaned predecessor is not its raw predecessor.
C4_Witness ==
    /\ ShiftsDone
    /\ \E e \in 1..Len(potential_shifts) :
         \E j \in 2..Len(df_clean) :
            /\ df_clean[j].idx = potential_shifts[e].idx
            /\ df_clean[j - 1].idx < df_clean[j].idx - 1

\* C5: a cleaned sample is flagged is_accelerating exactly when it has a
\* predecessor, rpm_delta > 100 and tps > 50, and the acceleration-event
\* count is the number of flagged samples.
C5_AcceleratingExact ==
    AccelDone =>
        /\ Len(is_accelerating) = Len(df_clean)
        /\ \A j \in 1..Len(df_clean) :
             is_accelerating[j] <=>
                /\ j >= 2
                /\ df_clean[j].RPM.n - df_clean[j - 1].RPM.n > 100
                /\ df_clean[j].TPS.n > 50
        /\ num_accel_events =
             Cardinality({j \in 1..Len(df_clean) : is_accelerating[j]})

\* Two consecutive flagged samples counted as two events.
C5_Witness ==
    /\ AccelDone
    /\ \E j \in 2..Len(df_clean) - 1 : is_accelerating[j] /\ is_accelerating[j + 1]
    /\ num_accel_events = 2

\* Cleaned samples whose map_rate is undefined: the first one, and those
\* whose time_delta to their predecessor is 0.
UndefinedMapRate ==
    {j \in 1..Len(df_clean) :
        j = 1 \/ df_clean[j].time_elapsed = df_clean[j - 1].time_elapsed}

\* C6: a cleaned sample with an undefined map_rate still has a finite
\* aggression score to which the map_rate term contributes 0 (the score is
\* the sum of the other three terms), and the mean aggression is a number.
C6_UndefinedMapRateContributesZero ==
    ScoreDone =>
        /\ \A j \in UndefinedMapRate :
             /\ Present(aggression_score[j])
             /\ MapRateTerm(map_change_rate[j]) = Num(0)
        /\ Present(avg_aggression)

LessEq(a, b) == Present(a) /\ Present(b) /\ a.n * b.d <= b.n * a.d

\* C7: every cleaned sample is counted in exactly one style bucket by its
\* score: smooth iff score < 0.3, moderate iff 0.3 <= score < 0.5,
\* aggressive iff score >= 0.5; the three counts sum to the number of
\* cleaned samples.
C7_StyleBucketsByScore ==
    ScoreDone =>
        /\ n_smooth =
             Cardinality({j \in 1..Len(df_clean) :
                 Present(aggression_score[j])
                 /\ ~LessEq(Rat(3, 10), aggression_score[j])})
        /\ n_moderate =
             Cardinality({j \in 1..Len(df_clean) :
                 /\ LessEq(Rat(3, 10), aggression_score[j])
                 /\ ~LessEq(Rat(5, 10), aggression_score[j])})
        /\ n_aggressive =
             Cardinality({j \in 1..Len(df_clean) :
                 LessEq(Rat(5, 10), aggression_score[j])})
        /\ n_smooth + n_moderate + n_aggressive = Len(df_clean)

\* Cleaned samples whose power_index is strictly above the 90th percentile
\* of power_index.
AboveQuantile ==
    LET q == Quantile(power_index, 9, 10)
    IN  {j \in 1..Len(df_clean) :
            Present(q) /\ ~LessEq(power_index[j], q)}

\* C8: shift analysis never yields an undefined value: with zero shift
\* events, or with no sample above the 90th-percentile power_index, it ends
\* in InsufficientEventsError; otherwise avg_shift_rpm is the mean of
\* rpm_before over the shift events and optimal_shift_rpm the minimum rpm
\* over the samples above the percentile.
C8_ShiftAnalysisNeverUndefined ==
    ShiftsDone =>
        /\ (Len(potential_shifts) = 0 \/ AboveQuantile = {})
             => error = "InsufficientEventsError"
        /\ Len(potential_shifts) > 0 =>
             /\ Present(avg_shift_rpm)
             /\ avg_shift_rpm = Mean(Col(potential_shifts, "shift_rpm_before"))
        /\ AboveQuantile # {} =>
             /\ Present(optimal_shift_rpm)
             /\ \E j \in AboveQuantile : optimal_shift_rpm = df_clean[j].RPM
             /\ \A j \in AboveQuantile : LessEq(optimal_shift_rpm, df_clean[j].RPM)

\* C9: on a non-empty log, normalization ends in InsufficientDataError
\* exactly when fewer than 2 samples remain after cleaning or the first
\* retained sample is missing the barometer; otherwise every retained
\* sample has the barometer present.
C9_InsufficientDataExact ==
    (pc # "read" /\ Len(df) > 0) =>
        LET first == CHOOSE i \in RetainableIdx : \A k \in RetainableIdx : i <= k
            insufficient ==
                \/ Cardinality(RetainableIdx) < 2
                \/ ~Present(df[first].Barometer)
        IN  /\ insufficient <=> error = "InsufficientDataError"
            /\ ~insufficient =>
                 \A j \in 1..Len(df_clean) : Present(df_clean[j].Barometer)

InRange(a, lo, hi) == LessEq(lo, a) /\ LessEq(a, hi)

\* C10: with 0 <= tps <= 100, every cleaned sample's aggression score lies
\* in [0, 1], each of its four weighted terms lies between 0 and its
\* weight, and the rpm term is 0.3 for the samples with the maximum rpm.
C10_ScoreInUnitInterval ==
    ScoreDone =>
        LET rpm_max == ColMax(Col(df_clean, "RPM"))
        IN  \A j \in 1..Len(df_clean) :
                /\ InRange(aggression_score[j], Num(0), Num(1))
                /\ InRange(TpsTerm(df_clean[j].TPS), Num(0), Rat(3, 10))
                /\ InRange(TpsChangeTerm(tps_change[j]), Num(0), Rat(2, 10))
                /\ InRange(RpmTerm(df_clean[j].RPM, rpm_max), Num(0), Rat(3, 10))
                /\ InRange(MapRateTerm(map_change_rate[j]), Num(0), Rat(2, 10))
                /\ df_clean[j].RPM = rpm_max =>
                     RpmTerm(df_clean[j].RPM, rpm_max) = Rat(3, 10)

====
